---------------------------- MODULE Spec2Model ----------------------------
(***************************************************************************)
(* A model of src/main.py: the HTTP handler generate_story_function, its   *)
(* Firestore helpers, the planner (agent_plan) and the executor            *)
(* (generate_story_from_plan).                                             *)
(*                                                                         *)
(* Strings whose content the code inspects or builds are sequences of      *)
(* tokens (<<>> is the empty string, <<" ", "d">> is " d"), so str.strip   *)
(* and f-string concatenation are computed, not assumed.  JSON values are  *)
(* tagged: [t |-> "str" | "null" | "list", v |-> tokens].                  *)
(* A Python dict is a function whose DOMAIN is its key set.                *)
(***************************************************************************)
EXTENDS Integers, Sequences, FiniteSets, TLC

\* ------------------------------------------------------------------ bounds
\* Invocations started in one behaviour.
MaxInvocations == 2
\* Longest keywords string, in tokens.
MaxLen == 2

\* The host instances that may run the handler at the same time.
Procs == {"i1", "i2"}

\* ------------------------------------------------------------ JSON values
Str(s) == [t |-> "str", v |-> s]
NullVal == [t |-> "null", v |-> <<>>]
ListVal(s) == [t |-> "list", v |-> s]
\* The value dict.get(key) yields for a key the dict does not hold.
None == NullVal

\* Python truthiness (`not x`, `if x`) of a JSON value.
Truthy(x) ==
    CASE x.t = "str" -> x.v # <<>>
      [] x.t = "null" -> FALSE
      [] x.t = "list" -> x.v # <<>>

\* dict.get(key, default)
Get(d, key, default) == IF key \in DOMAIN d THEN d[key] ELSE default

EmptyDict == <<>>

\* str.strip(): drop leading and trailing whitespace tokens.
IsSpace(c) == c = " "

RECURSIVE LStrip(_)
LStrip(s) == IF s # <<>> /\ IsSpace(Head(s)) THEN LStrip(Tail(s)) ELSE s

RECURSIVE RStrip(_)
RStrip(s) ==
    IF s # <<>> /\ IsSpace(s[Len(s)]) THEN RStrip(SubSeq(s, 1, Len(s) - 1)) ELSE s

\* Strip that drops the leading whitespace only (str.lstrip).
Strip_LeadingOnly(s) == LStrip(s)

Strip(s) == RStrip(LStrip(s))

\* ------------------------------------------------------------- the inputs
KwChars == {" ", "d"}
KwStrings == UNION {[1..n -> KwChars] : n \in 0..MaxLen}

Absent == [t |-> "absent", v |-> <<>>]

\* null stands for every keywords value that is not a string.
KeywordsOpts == {Absent, NullVal} \cup {Str(s) : s \in KwStrings}
UserIdOpts == {Absent, Str(<<>>), Str(<<"u1">>)}
AppIdOpts == {Absent, Str(<<>>), Str(<<"a1">>)}
FeedbackOpts ==
    {Absent, Str(<<>>), Str(<<"love">>), Str(<<"meh">>), ListVal(<<"love">>)}

FieldNames == {"keywords", "userId", "appId", "feedbackType"}

\* The JSON object holding exactly the fields that are not Absent.
MkObject(k, u, a, f) ==
    LET all == [n \in FieldNames |->
                   CASE n = "keywords" -> k
                     [] n = "userId" -> u
                     [] n = "appId" -> a
                     [] n = "feedbackType" -> f]
        present == {n \in FieldNames : all[n].t # "absent"}
    IN [n \in present |-> all[n]]

\* What request.get_json(silent=True) returns: None (no body, or not JSON),
\* a JSON array, or a JSON object.
NoBody == [kind |-> "none", d |-> EmptyDict]
ArrayBody == [kind |-> "list", d |-> EmptyDict]
ObjectBody(d) == [kind |-> "dict", d |-> d]

Bodies ==
    {NoBody, ArrayBody} \cup
    {ObjectBody(MkObject(k, u, a, f)) :
        k \in KeywordsOpts, u \in UserIdOpts, a \in AppIdOpts, f \in FeedbackOpts}

NoOrigin == <<>>
Origins == {NoOrigin, <<"http://localhost:5173">>, <<"http://evil.example">>}
Methods == {"OPTIONS", "POST"}

Requests == [method : Methods, origin : Origins, body : Bodies]

\* Well-typed POST requests.
TypedRequests ==
    {r \in Requests :
        /\ r.method = "POST"
        /\ r.origin = NoOrigin
        /\ r.body.kind = "dict"
        /\ \A n \in DOMAIN r.body.d : r.body.d[n].t = "str"}

\* ------------------------------------------------------ response helpers
\* safe_json_dumps(data): the JSON text of a dict; the text '' is not JSON.
safe_json_dumps(data) == [json |-> TRUE, data |-> data]
EmptyText == [json |-> FALSE, data |-> EmptyDict]

ALLOWED_ORIGINS ==
    {<<"http://localhost:5173">>, <<"http://localhost:5174">>,
     <<"http://localhost:5175">>}

HeaderNames ==
    {"Access-Control-Allow-Origin", "Access-Control-Allow-Methods",
     "Access-Control-Allow-Headers", "Access-Control-Max-Age"}

\* The headers dict of generate_story_function.
CorsHeaders(origin) ==
    [h \in HeaderNames |->
        CASE h = "Access-Control-Allow-Origin" ->
                IF origin # NoOrigin /\ (origin \in ALLOWED_ORIGINS \/ <<"*">> \in ALLOWED_ORIGINS)
                THEN origin ELSE <<"*">>
          [] h = "Access-Control-Allow-Methods" -> <<"GET, POST, OPTIONS">>
          [] h = "Access-Control-Allow-Headers" ->
                <<"Content-Type, X-Requested-With, Authorization">>
          [] h = "Access-Control-Max-Age" -> <<"3600">>]

Response(body, status, headers) ==
    [body |-> body, status |-> status, headers |-> headers]

ErrorResponse(msg, status, origin) ==
    Response(safe_json_dumps([error |-> msg]), status, CorsHeaders(origin))

NoResponse == Response(EmptyText, 0, EmptyDict)

MsgInvalidBody == <<"Invalid JSON or missing request body">>
MsgMissingUser == <<"Missing userId">>
MsgMissingApp == <<"Missing appId">>
MsgMissingKeywords == <<"Missing keywords for story generation">>

\* `not request_json`: None and the empty object are both falsy.
BodyFalsy(b) == b.kind = "none" \/ (b.kind = "dict" /\ DOMAIN b.d = {})

\* request_json.get('keywords', '').strip() raises AttributeError when
\* request_json is a list, and when the value is not a string.
KeywordsRaises(b) ==
    \/ b.kind # "dict"
    \/ Get(b.d, "keywords", Str(<<>>)).t # "str"

\* The preflight test with the method name in the wrong case.
IsPreflight_LowerCase(r) == r.method = "options"

\* if request.method == 'OPTIONS'
IsPreflight(r) == r.method = "OPTIONS"

\* Branch with the appId check ahead of the userId check.
Branch_AppFirst(user_id, app_id, feedback_type, keywords) ==
    IF ~Truthy(app_id) THEN "no_app"
    ELSE IF ~Truthy(user_id) THEN "no_user"
    ELSE IF Truthy(feedback_type) THEN "feedback"
    ELSE IF keywords = <<>> THEN "no_keywords"
    ELSE "generate"

\* Lines 128-143 without the calls: the check that fails first, or the
\* branch taken.
Branch(user_id, app_id, feedback_type, keywords) ==
    IF ~Truthy(user_id) THEN "no_user"
    ELSE IF ~Truthy(app_id) THEN "no_app"
    ELSE IF Truthy(feedback_type) THEN "feedback"
    ELSE IF keywords = <<>> THEN "no_keywords"
    ELSE "generate"

\* The handler from its entry to its first external call: the response it
\* returns, the exception it lets escape, or the path it takes.  `parsed`
\* tells whether request.get_json was called.
Entry(r) ==
    LET b == r.body
        kwv == Get(b.d, "keywords", Str(<<>>))
        user == Get(b.d, "userId", None)
        app == Get(b.d, "appId", None)
        fb == Get(b.d, "feedbackType", None)
        kw == IF kwv.t = "str" THEN Strip(kwv.v) ELSE <<>>
        br == Branch(user, app, fb, kw)
        out(next, resp, parsed) ==
            [next |-> next, resp |-> resp, parsed |-> parsed,
             keywords |-> kw, user_id |-> user, app_id |-> app, feedback_type |-> fb]
    IN  IF IsPreflight(r)
        THEN out("returned", Response(EmptyText, 204, CorsHeaders(r.origin)), FALSE)
        ELSE IF BodyFalsy(b)
        THEN out("returned", ErrorResponse(MsgInvalidBody, 400, r.origin), TRUE)
        ELSE IF KeywordsRaises(b)
        THEN out("raised", NoResponse, TRUE)
        ELSE CASE br = "no_user" ->
                    out("returned", ErrorResponse(MsgMissingUser, 400, r.origin), TRUE)
               [] br = "no_app" ->
                    out("returned", ErrorResponse(MsgMissingApp, 400, r.origin), TRUE)
               [] br = "feedback" -> out("fb_read", NoResponse, TRUE)
               [] br = "no_keywords" ->
                    out("returned", ErrorResponse(MsgMissingKeywords, 400, r.origin), TRUE)
               [] br = "generate" -> out("plan_read", NoResponse, TRUE)

\* ------------------------------------------------------ Firestore helpers
\* One story_prefs document per artifacts/{app_id}/users/{user_id} path.
DocKeys == {<<a.v, u.v>> : a \in {x \in AppIdOpts : x.t = "str" /\ x.v # <<>>},
                           u \in {x \in UserIdOpts : x.t = "str" /\ x.v # <<>>}}
DocKey(user_id, app_id) == <<app_id.v, user_id.v>>

\* A document that does not exist has no fields.
NoDoc == EmptyDict
MapFields == {"feedback_counts", "last_plan"}
SERVER_TIMESTAMP == <<"SERVER_TIMESTAMP">>

\* doc.to_dict() if doc.exists else {}
get_user_preferences(store, user_id, app_id) == store[DocKey(user_id, app_id)]

\* The data update_user_preferences hands to ref.set.
SetData(update_data) ==
    [k \in DOMAIN update_data \cup {"last_updated"} |->
        IF k = "last_updated" THEN SERVER_TIMESTAMP ELSE update_data[k]]

\* DocumentReference.set(data, merge=True): the fields of data replace the
\* stored ones, map fields key by key; every other stored field is kept.
MergeDoc(old, data) ==
    [k \in DOMAIN old \cup DOMAIN data |->
        IF k \notin DOMAIN data THEN old[k]
        ELSE IF k \in MapFields /\ k \in DOMAIN old
        THEN [j \in DOMAIN old[k] \cup DOMAIN data[k] |->
                 IF j \in DOMAIN data[k] THEN data[k][j] ELSE old[k][j]]
        ELSE data[k]]

update_user_preferences(store, user_id, app_id, update_data) ==
    [store EXCEPT ![DocKey(user_id, app_id)] = MergeDoc(@, SetData(update_data))]

\* Increment that forgets the count read: feedback_counts[feedback_type] = 1.
Increment_FromZero(counts, key) ==
    [k \in DOMAIN counts \cup {key} |-> IF k = key THEN 1 ELSE counts[k]]

\* feedback_counts[feedback_type] = feedback_counts.get(feedback_type, 0) + 1
Increment(counts, key) ==
    [k \in DOMAIN counts \cup {key} |->
        IF k = key THEN Get(counts, key, 0) + 1 ELSE counts[k]]

\* --------------------------------------------------------------- planner
DefaultLength == 150
StoryPrefix == <<"Story based on: ">>

TextProse == "Once upon a time there was a dog."
TextPlan ==
    "{\"tone\": \"humorous\", \"plot_outline\": \"A dog finds home.\", \"length_in_words\": 120}"
TextPartial == "{\"tone\": \"humorous\"}"
TextArray == "[\"humorous\", \"A dog finds home.\", 120]"
TextPrefixed == "Here is the plan: {\"tone\": \"humorous\"}"
NoText == ""
PlannerTexts == {TextProse, TextPrefixed, TextPlan, TextPartial, TextArray}

PlanDict(d) == [kind |-> "dict", d |-> d]
PlanList == [kind |-> "list", d |-> EmptyDict]
NoPlan == [kind |-> "none", d |-> EmptyDict]

\* json.loads(text): the parsed value, or JSONDecodeError.
json_loads(text) ==
    CASE text = TextPlan ->
            [ok |-> TRUE,
             val |-> PlanDict([tone |-> <<"humorous">>,
                               plot_outline |-> <<"A dog finds home.">>,
                               length_in_words |-> 120])]
      [] text = TextPartial ->
            [ok |-> TRUE, val |-> PlanDict([tone |-> <<"humorous">>])]
      [] text = TextArray -> [ok |-> TRUE, val |-> PlanList]
      [] OTHER -> [ok |-> FALSE, val |-> NoPlan]

\* A fallback plan that ignores the stored preferred_tone.
FallbackPlan_Neutral(prefs, keywords) ==
    PlanDict([tone |-> <<"neutral">>,
              plot_outline |-> StoryPrefix \o keywords,
              length_in_words |-> DefaultLength])

\* The plan of the except branch of agent_plan.
FallbackPlan(prefs, keywords) ==
    PlanDict([tone |-> Get(prefs, "preferred_tone", <<"neutral">>),
              plot_outline |-> StoryPrefix \o keywords,
              length_in_words |-> DefaultLength])

\* agent_plan after the planner call has returned `text`.
agent_plan(prefs, keywords, text) ==
    IF json_loads(text).ok THEN json_loads(text).val ELSE FallbackPlan(prefs, keywords)

\* -------------------------------------------------------------- executor
PlanFields == <<"length_in_words", "tone", "plot_outline">>

\* The exception the execution_prompt f-string of generate_story_from_plan
\* raises, <<>> when it raises none: TypeError for a plan that is no dict,
\* KeyError for the first missing key.
PromptError(plan) ==
    IF plan.kind # "dict" THEN <<"list indices must be integers or slices, not str">>
    ELSE IF PlanFields[1] \notin DOMAIN plan.d THEN <<"'length_in_words'">>
    ELSE IF PlanFields[2] \notin DOMAIN plan.d THEN <<"'tone'">>
    ELSE IF PlanFields[3] \notin DOMAIN plan.d THEN <<"'plot_outline'">>
    ELSE <<>>

StoryTexts == {<<"A story.">>}

MsgStoreError == <<"503 store unavailable">>
MsgModelError == <<"503 model unavailable">>
MsgUnhashable == <<"unhashable type: 'list'">>

\* ---------------------------------------------------------------- state
VARIABLES
    db,               \* the preference store: document of each DocKey
    pc,               \* where each invocation stands
    req,              \* the request of each invocation
    resp,             \* the triple each invocation returned
    calls,            \* the calls each invocation has made, in order
    prefs,            \* local `prefs`
    plan_text,        \* plan_response.text of agent_plan
    feedback_counts,  \* local `feedback_counts` of the feedback branch
    plan,             \* local `plan`
    story,            \* local `story`
    written,          \* the data of the write each invocation completed
    started,          \* invocations started so far
    db0,              \* the store before the first invocation
    fbOk,             \* feedback invocations answered 200, per document and type
    fbReq             \* feedback requests received, per document and type

vars ==
    <<db, pc, req, resp, calls, prefs, plan_text, feedback_counts, plan, story, written,
      started, db0, fbOk, fbReq>>

locals == <<prefs, plan_text, feedback_counts, plan, story>>

NoRequest == [method |-> "OPTIONS", origin |-> NoOrigin, body |-> NoBody]
FeedbackTypes == {f.v : f \in {x \in FeedbackOpts : x.t = "str" /\ x.v # <<>>}}

\* A document left by an earlier feedback request and an earlier generation.
UsedDoc ==
    [feedback_counts |-> [t \in {<<"love">>} |-> 1],
     preferred_tone |-> <<"adventurous">>,
     last_keywords |-> <<"d">>,
     last_plan |-> FallbackPlan(EmptyDict, <<"d">>).d,
     last_updated |-> SERVER_TIMESTAMP]

InitDocs == {NoDoc, UsedDoc}

Init ==
    /\ db \in [DocKeys -> InitDocs]
    /\ db0 = db
    /\ pc = [p \in Procs |-> "idle"]
    /\ req = [p \in Procs |-> NoRequest]
    /\ resp = [p \in Procs |-> NoResponse]
    /\ calls = [p \in Procs |-> <<>>]
    /\ prefs = [p \in Procs |-> EmptyDict]
    /\ plan_text = [p \in Procs |-> NoText]
    /\ feedback_counts = [p \in Procs |-> EmptyDict]
    /\ plan = [p \in Procs |-> NoPlan]
    /\ story = [p \in Procs |-> <<>>]
    /\ written = [p \in Procs |-> EmptyDict]
    /\ started = 0
    /\ fbOk = [k \in DocKeys, t \in FeedbackTypes |-> 0]
    /\ fbReq = [k \in DocKeys, t \in FeedbackTypes |-> 0]

\* The fields of the request of p, as the handler reads them.
E(p) == Entry(req[p])

\* A request that takes the feedback branch with a string feedbackType,
\* and the document and type it counts under.
IsFeedback(r) == Entry(r).next = "fb_read" /\ Entry(r).feedback_type.t = "str"
FbKey(r) == <<DocKey(Entry(r).user_id, Entry(r).app_id), Entry(r).feedback_type.v>>

\* The except clause of generate_story_function: status 500, str(e).
Fail(p, msg) ==
    /\ pc' = [pc EXCEPT ![p] = "returned"]
    /\ resp' = [resp EXCEPT ![p] = ErrorResponse(msg, 500, req[p].origin)]
    /\ UNCHANGED <<db, fbOk>>

\* The host starts the handler on a request of R: lines 105-131, and the
\* branch taken at lines 135 and 142.
Receive(p, R) ==
    /\ pc[p] = "idle"
    /\ started < MaxInvocations
    /\ started' = started + 1
    /\ \E r \in R :
        LET e == Entry(r)
        IN  /\ req' = [req EXCEPT ![p] = r]
            /\ pc' = [pc EXCEPT ![p] = e.next]
            /\ resp' = [resp EXCEPT ![p] = e.resp]
            /\ calls' = [calls EXCEPT ![p] = IF e.parsed THEN <<"get_json">> ELSE <<>>]
            /\ fbReq' = IF IsFeedback(r) THEN [fbReq EXCEPT ![FbKey(r)] = @ + 1] ELSE fbReq
    /\ UNCHANGED <<db, db0, fbOk, written, locals>>

\* Lines 136-138: read the document, count the feedback.
FeedbackRead(p) ==
    /\ pc[p] = "fb_read"
    /\ calls' = [calls EXCEPT ![p] = Append(@, "get_user_preferences")]
    /\ \E ok \in BOOLEAN :
        IF ~ok
        THEN Fail(p, MsgStoreError) /\ UNCHANGED locals
        ELSE LET pr == get_user_preferences(db, E(p).user_id, E(p).app_id)
                 fc == Get(pr, "feedback_counts", EmptyDict)
             IN  IF E(p).feedback_type.t # "str"
                 THEN Fail(p, MsgUnhashable) /\ UNCHANGED locals
                 ELSE /\ feedback_counts' =
                            [feedback_counts EXCEPT ![p] = Increment(fc, E(p).feedback_type.v)]
                      /\ prefs' = [prefs EXCEPT ![p] = pr]
                      /\ pc' = [pc EXCEPT ![p] = "fb_write"]
                      /\ UNCHANGED <<db, resp, fbOk, plan, story, plan_text>>
    /\ UNCHANGED <<req, written, started, db0, fbReq>>

\* FeedbackWrite as a transaction: the count is incremented on the document
\* as it is stored at the time of the write.
FeedbackWrite_Transactional(p) ==
    /\ pc[p] = "fb_write"
    /\ calls' = [calls EXCEPT ![p] = Append(@, "update_user_preferences")]
    /\ \E ok \in BOOLEAN :
        IF ~ok
        THEN Fail(p, MsgStoreError) /\ UNCHANGED written
        ELSE LET stored == get_user_preferences(db, E(p).user_id, E(p).app_id)
                 data == [feedback_counts |->
                             Increment(Get(stored, "feedback_counts", EmptyDict),
                                       E(p).feedback_type.v)]
             IN  /\ db' = update_user_preferences(db, E(p).user_id, E(p).app_id, data)
                 /\ written' = [written EXCEPT ![p] = SetData(data)]
                 /\ resp' = [resp EXCEPT ![p] =
                        Response(safe_json_dumps(
                                     [message |-> <<"Feedback ">> \o E(p).feedback_type.v
                                                      \o <<" processed.">>]),
                                 200, CorsHeaders(req[p].origin))]
                 /\ pc' = [pc EXCEPT ![p] = "returned"]
                 /\ fbOk' = [fbOk EXCEPT ![FbKey(req[p])] = @ + 1]
    /\ UNCHANGED <<req, started, db0, fbReq, locals>>

\* Lines 139-140: write the counts back, answer 200.
FeedbackWrite(p) ==
    /\ pc[p] = "fb_write"
    /\ calls' = [calls EXCEPT ![p] = Append(@, "update_user_preferences")]
    /\ \E ok \in BOOLEAN :
        IF ~ok
        THEN Fail(p, MsgStoreError) /\ UNCHANGED written
        ELSE LET data == [feedback_counts |-> feedback_counts[p]]
             IN  /\ db' = update_user_preferences(db, E(p).user_id, E(p).app_id, data)
                 /\ written' = [written EXCEPT ![p] = SetData(data)]
                 /\ resp' = [resp EXCEPT ![p] =
                        Response(safe_json_dumps(
                                     [message |-> <<"Feedback ">> \o E(p).feedback_type.v
                                                      \o <<" processed.">>]),
                                 200, CorsHeaders(req[p].origin))]
                 /\ pc' = [pc EXCEPT ![p] = "returned"]
                 /\ fbOk' = [fbOk EXCEPT ![FbKey(req[p])] = @ + 1]
    /\ UNCHANGED <<req, started, db0, fbReq, locals>>

\* Line 146 into agent_plan, line 62: read the preferences.
PlanRead(p) ==
    /\ pc[p] = "plan_read"
    /\ calls' = [calls EXCEPT ![p] = Append(@, "get_user_preferences")]
    /\ \E ok \in BOOLEAN :
        IF ~ok
        THEN Fail(p, MsgStoreError) /\ UNCHANGED prefs
        ELSE /\ prefs' = [prefs EXCEPT ![p] =
                             get_user_preferences(db, E(p).user_id, E(p).app_id)]
             /\ pc' = [pc EXCEPT ![p] = "planner"]
             /\ UNCHANGED <<db, resp, fbOk>>
    /\ UNCHANGED <<req, written, started, db0, fbReq, plan_text, feedback_counts, plan, story>>

\* Lines 75-87, then line 149 up to the executor call (lines 91-96).
PlannerCall(p) ==
    /\ pc[p] = "planner"
    /\ calls' = [calls EXCEPT ![p] = Append(@, "planner.generate_content")]
    /\ \E ok \in BOOLEAN, text \in PlannerTexts :
        IF ~ok
        THEN Fail(p, MsgModelError) /\ UNCHANGED <<plan, plan_text>>
        ELSE LET pl == agent_plan(prefs[p], E(p).keywords, text)
             IN  /\ plan_text' = [plan_text EXCEPT ![p] = text]
                 /\ plan' = [plan EXCEPT ![p] = pl]
                 /\ IF PromptError(pl) # <<>>
                    THEN Fail(p, PromptError(pl))
                    ELSE /\ pc' = [pc EXCEPT ![p] = "executor"]
                         /\ UNCHANGED <<db, resp, fbOk>>
    /\ UNCHANGED <<req, written, started, db0, fbReq, prefs, feedback_counts, story>>

\* Lines 98-100: the executor call.
ExecutorCall(p) ==
    /\ pc[p] = "executor"
    /\ calls' = [calls EXCEPT ![p] = Append(@, "executor.generate_content")]
    /\ \E ok \in BOOLEAN, text \in StoryTexts :
        IF ~ok
        THEN Fail(p, MsgModelError) /\ UNCHANGED story
        ELSE /\ story' = [story EXCEPT ![p] = text]
             /\ pc' = [pc EXCEPT ![p] = "pref_write"]
             /\ UNCHANGED <<db, resp, fbOk>>
    /\ UNCHANGED <<req, written, started, db0, fbReq, prefs, plan_text, feedback_counts, plan>>

\* Lines 152-158: the memory update, then the 200 response.
PrefWrite(p) ==
    /\ pc[p] = "pref_write"
    /\ calls' = [calls EXCEPT ![p] = Append(@, "update_user_preferences")]
    /\ \E ok \in BOOLEAN :
        IF ~ok
        THEN Fail(p, MsgStoreError) /\ UNCHANGED written
        ELSE LET data == [preferred_tone |-> Get(plan[p].d, "tone", <<"neutral">>),
                          last_keywords |-> E(p).keywords,
                          last_plan |-> plan[p].d]
             IN  /\ db' = update_user_preferences(db, E(p).user_id, E(p).app_id, data)
                 /\ written' = [written EXCEPT ![p] = SetData(data)]
                 /\ resp' = [resp EXCEPT ![p] =
                        Response(safe_json_dumps([plan |-> plan[p].d, story |-> story[p]]),
                                 200, CorsHeaders(req[p].origin))]
                 /\ pc' = [pc EXCEPT ![p] = "returned"]
                 /\ UNCHANGED fbOk
    /\ UNCHANGED <<req, started, db0, fbReq, locals>>

\* The host has delivered the response (or reported the escaped exception):
\* the invocation is over and its locals are gone.
Finish(p) ==
    /\ pc[p] \in {"returned", "raised"}
    /\ pc' = [pc EXCEPT ![p] = "idle"]
    /\ req' = [req EXCEPT ![p] = NoRequest]
    /\ resp' = [resp EXCEPT ![p] = NoResponse]
    /\ calls' = [calls EXCEPT ![p] = <<>>]
    /\ prefs' = [prefs EXCEPT ![p] = EmptyDict]
    /\ plan_text' = [plan_text EXCEPT ![p] = NoText]
    /\ feedback_counts' = [feedback_counts EXCEPT ![p] = EmptyDict]
    /\ plan' = [plan EXCEPT ![p] = NoPlan]
    /\ story' = [story EXCEPT ![p] = <<>>]
    /\ written' = [written EXCEPT ![p] = EmptyDict]
    /\ UNCHANGED <<db, started, db0, fbOk, fbReq>>

\* One step of generate_story_function in invocation p.
generate_story_function(p, R) ==
    \/ Receive(p, R)
    \/ FeedbackRead(p)
    \/ FeedbackWrite(p)
    \/ PlanRead(p)
    \/ PlannerCall(p)
    \/ ExecutorCall(p)
    \/ PrefWrite(p)
    \/ Finish(p)

\* One instance runs the handler, one request at a time.
Next == \E p \in {"i1"} : generate_story_function(p, Requests)

Spec == Init /\ [][Next]_vars

\* Requests that pass validation, with keywords of at most one token.
ConcurrentRequests ==
    {r \in TypedRequests :
        /\ Entry(r).next \in {"fb_read", "plan_read"}
        /\ "keywords" \in DOMAIN r.body.d => r.body.d["keywords"].v \in {<<>>, <<"d">>}}

\* The host runs the invocations concurrently, each in its own instance.
NextConcurrent == \E p \in Procs : generate_story_function(p, ConcurrentRequests)

SpecConcurrent == Init /\ [][NextConcurrent]_vars

\* ======================================================== the properties
Ended(p) == pc[p] \in {"returned", "raised"}
Returned(p) == pc[p] = "returned"
Status(p) == resp[p].status
ErrorBody(msg) == safe_json_dumps([error |-> msg])
StoreCalls == {"get_user_preferences", "update_user_preferences"}
ModelCalls == {"planner.generate_content", "executor.generate_content"}
Made(p) == {calls[p][i] : i \in DOMAIN calls[p]}
HasObject(r) == r.body.kind = "dict" /\ DOMAIN r.body.d # {}
Field(r, n) == Get(r.body.d, n, None)
NonEmptyString(x) == x.t = "str" /\ x.v # <<>>
\* feedback_counts[t] of a stored document, a missing entry counting as 0.
Count(doc, t) == Get(Get(doc, "feedback_counts", EmptyDict), t, 0)

\* C1: an OPTIONS request, whatever its body and Origin, is answered 204
\* with an empty body and the four CORS headers; the handler has not parsed
\* the body, has made no store or generative-service call and has written
\* nothing.
C1_Preflight ==
    \A p \in Procs :
        (pc[p] # "idle" /\ req[p].method = "OPTIONS") =>
            /\ Returned(p)
            /\ Status(p) = 204
            /\ resp[p].body = EmptyText
            /\ DOMAIN resp[p].headers = HeaderNames
            /\ resp[p].headers["Access-Control-Max-Age"] = <<"3600">>
            /\ calls[p] = <<>>
            /\ written[p] = EmptyDict

\* An OPTIONS request that carries a complete generation body and a foreign
\* Origin has been answered.
C1_Witness ==
    \E p \in Procs :
        /\ Returned(p)
        /\ req[p].method = "OPTIONS"
        /\ req[p].origin = <<"http://evil.example">>
        /\ HasObject(req[p])
        /\ \A n \in {"userId", "appId", "keywords"} : NonEmptyString(Field(req[p], n))
        /\ Status(p) = 204

\* C2: every request (other than a preflight) whose JSON object has no
\* userId is answered 400 with the error message "Missing userId", whatever
\* its other fields hold.
C2_MissingUserId ==
    \A p \in Procs :
        (/\ Ended(p)
         /\ req[p].method # "OPTIONS"
         /\ req[p].body.kind = "dict"
         /\ "userId" \notin DOMAIN req[p].body.d) =>
            /\ Returned(p)
            /\ Status(p) = 400
            /\ resp[p].body = ErrorBody(<<"Missing userId">>)

\* C3: every invocation ends by returning a triple whose status is 204,
\* 400, 200 or 500 and whose headers hold the four CORS headers; no
\* exception escapes the handler.
C3_AlwaysTriple ==
    \A p \in Procs :
        /\ pc[p] # "raised"
        /\ Returned(p) =>
            /\ Status(p) \in {204, 400, 200, 500}
            /\ HeaderNames \subseteq DOMAIN resp[p].headers

\* The message of the first check that fails on request r, in the order
\* body, userId, appId, keywords (the last only without a feedbackType);
\* <<>> when none fails.
FirstFailure(r) ==
    IF ~HasObject(r) THEN <<"Invalid JSON or missing request body">>
    ELSE IF ~Truthy(Field(r, "userId")) THEN <<"Missing userId">>
    ELSE IF ~Truthy(Field(r, "appId")) THEN <<"Missing appId">>
    ELSE IF /\ ~Truthy(Field(r, "feedbackType"))
            /\ \/ "keywords" \notin DOMAIN r.body.d
               \/ /\ Field(r, "keywords").t = "str"
                  /\ \A i \in DOMAIN Field(r, "keywords").v : Field(r, "keywords").v[i] = " "
    THEN <<"Missing keywords for story generation">>
    ELSE <<>>

C5_FeedbackOnly ==
    \A p \in Procs :
        (/\ Ended(p)
         /\ req[p].method # "OPTIONS"
         /\ req[p].body.kind = "dict"
         /\ NonEmptyString(Field(req[p], "userId"))
         /\ NonEmptyString(Field(req[p], "appId"))
         /\ NonEmptyString(Field(req[p], "feedbackType"))) =>
            /\ Returned(p)
            /\ Status(p) = 200
            /\ resp[p].body =
                  safe_json_dumps([message |-> <<"Feedback ">> \o Field(req[p], "feedbackType").v
                                                   \o <<" processed.">>])
            /\ Made(p) \cap ModelCalls = {}
            /\ DOMAIN written[p] = {"feedback_counts", "last_updated"}

Idle == \A p \in Procs : pc[p] = "idle"

\* C6 as stated: once N feedback requests of type t for one document have
\* run one after another, the stored feedback_counts[t] is N higher than it
\* started, and the counts of the other types are as they started.
C6_ExactlyN ==
    Idle => \A k \in DocKeys, t \in FeedbackTypes :
                Count(db[k], t) = Count(db0[k], t) + fbReq[k, t]

\* C6, amended: with no two invocations overlapping, the stored
\* feedback_counts[t] of a document is higher than it started by exactly the
\* number of feedback requests of type t for that document that were
\* answered 200, and so the counts of the other types are as they started.
C6_ExactlyAnswered ==
    \A k \in DocKeys, t \in FeedbackTypes :
        Count(db[k], t) = Count(db0[k], t) + fbOk[k, t]

\* Two feedback requests of one type have been answered 200, on a document
\* that did not exist at first, and the count of another type is untouched.
C6_Witness ==
    \E k \in DocKeys :
        /\ db0[k] = NoDoc
        /\ fbOk[k, <<"love">>] = 2
        /\ Count(db[k], <<"love">>) = 2
        /\ Count(db[k], <<"meh">>) = 0

\* The texts of PlannerTexts that are not JSON.
NonJsonTexts == {TextProse, TextPrefixed}

\* C7: when the planner call returned text that is not JSON, the plan of
\* agent_plan is {tone: the preferred_tone of the preferences read, or
\* "neutral" when they hold none; plot_outline: "Story based on: " followed
\* by the keywords; length_in_words: 150}.
C7_FallbackPlan ==
    \A p \in Procs :
        plan_text[p] \in NonJsonTexts =>
            /\ plan[p].kind = "dict"
            /\ DOMAIN plan[p].d = {"tone", "plot_outline", "length_in_words"}
            /\ plan[p].d["tone"] =
                  IF "preferred_tone" \in DOMAIN prefs[p]
                  THEN prefs[p]["preferred_tone"] ELSE <<"neutral">>
            /\ plan[p].d["plot_outline"] = <<"Story based on: ">> \o E(p).keywords
            /\ plan[p].d["length_in_words"] = 150

\* The planner returned prose for a user whose stored tone is adventurous.
C7_Witness ==
    \E p \in Procs :
        /\ plan_text[p] = TextProse
        /\ "preferred_tone" \in DOMAIN prefs[p]
        /\ plan[p].d["tone"] = <<"adventurous">>
        /\ plan[p].d["plot_outline"] = <<"Story based on: ", "d">>

\* C8: whatever text the planner call returned, the plan handed to
\* generate_story_from_plan has tone, plot_outline and length_in_words, and
\* the request is not answered with an error because of that text.
C8_PlanWellFormed ==
    \A p \in Procs :
        plan_text[p] \in PlannerTexts =>
            /\ plan[p].kind = "dict"
            /\ {"tone", "plot_outline", "length_in_words"} \subseteq DOMAIN plan[p].d
            /\ (Returned(p) /\ calls[p][Len(calls[p])] = "planner.generate_content")
                  => Status(p) # 500

\* An invocation that reached generation: it called agent_plan.
Generating(p) == Entry(req[p]).next = "plan_read"
Pipeline ==
    <<"get_json", "get_user_preferences", "planner.generate_content",
      "executor.generate_content", "update_user_preferences">>
RawKeywords(p) == Field(req[p], "keywords").v

\* The two outcomes of C9, the stored last_keywords being kw.
C9_Outcomes(p, kw) ==
    \/ /\ Status(p) = 200
       /\ resp[p].body.json
       /\ DOMAIN resp[p].body.data = {"plan", "story"}
       /\ calls[p] = Pipeline
       /\ DOMAIN written[p] = {"preferred_tone", "last_keywords", "last_plan", "last_updated"}
       /\ written[p]["last_keywords"] = kw
       /\ written[p]["last_plan"] = resp[p].body.data["plan"]
       /\ written[p]["preferred_tone"] = resp[p].body.data["plan"]["tone"]
       /\ LET doc == db[DocKey(E(p).user_id, E(p).app_id)]
          IN  /\ doc["last_keywords"] = kw
              /\ doc["preferred_tone"] = resp[p].body.data["plan"]["tone"]
    \/ /\ Status(p) = 500
       /\ resp[p].body.json
       /\ DOMAIN resp[p].body.data = {"error"}
       /\ written[p] = EmptyDict
       /\ \E n \in 2..Len(Pipeline) : calls[p] = SubSeq(Pipeline, 1, n)

\* C9 as stated: an invocation that reached generation ends either with 200,
\* plan and story, after the preference write completed with last_keywords
\* equal to the keywords of the request, last_plan the returned plan and
\* preferred_tone its tone; or with 500 and an error field only, after one
\* step raised, each step called at most once and none after the failure.
C9_NoPartialSuccess ==
    \A p \in Procs : (Returned(p) /\ Generating(p)) => C9_Outcomes(p, RawKeywords(p))

\* s is raw without its leading and trailing whitespace.
IsStripped(s, raw) ==
    /\ s # <<>> => (s[1] # " " /\ s[Len(s)] # " ")
    /\ \E i \in 0..Len(raw), j \in 0..Len(raw) :
          /\ i + Len(s) + j = Len(raw)
          /\ \A n \in 1..Len(raw) :
                raw[n] = IF n > i /\ n <= i + Len(s) THEN s[n - i] ELSE " "

\* C9, amended: as C9, last_keywords being the keywords of the request
\* without their leading and trailing whitespace.
C9_NoPartialSuccessStripped ==
    \A p \in Procs :
        (Returned(p) /\ Generating(p)) =>
            \E kw \in KwStrings : IsStripped(kw, RawKeywords(p)) /\ C9_Outcomes(p, kw)

\* A generation request whose keywords start with whitespace has been
\* answered 200 after its preference write completed.
C9_Witness ==
    \E p \in Procs :
        /\ Returned(p) /\ Generating(p)
        /\ Status(p) = 200
        /\ RawKeywords(p) = <<" ", "d">>
        /\ written[p]["last_keywords"] = <<"d">>

\* Two feedback invocations of one type on one document that have both been
\* answered 200 after reading the same count.
SameRead(p, q) ==
    /\ p # q
    /\ Returned(p) /\ Returned(q)
    /\ IsFeedback(req[p]) /\ IsFeedback(req[q])
    /\ FbKey(req[p]) = FbKey(req[q])
    /\ Status(p) = 200 /\ Status(q) = 200
    /\ feedback_counts[p][FbKey(req[p])[2]] = feedback_counts[q][FbKey(req[p])[2]]

\* C10: under concurrency the stored count of a type never exceeds its
\* initial value plus the feedback requests answered 200, and it falls
\* short of it when two concurrent invocations both read the document
\* before either wrote: both are answered 200 and the count is one above
\* the count they read.
C10_LostUpdate ==
    /\ \A k \in DocKeys, t \in FeedbackTypes :
          Count(db[k], t) <= Count(db0[k], t) + fbOk[k, t]
    /\ \A p \in Procs, q \in Procs :
          SameRead(p, q) =>
              LET k == FbKey(req[p])[1]
                  t == FbKey(req[p])[2]
              IN  /\ Count(db[k], t) = feedback_counts[p][t]
                  /\ Count(db[k], t) < Count(db0[k], t) + fbOk[k, t]

\* Both invocations were answered 200 and the count grew by one.
C10_Witness ==
    \E p \in Procs, q \in Procs :
        /\ SameRead(p, q)
        /\ fbOk[FbKey(req[p])] = 2
        /\ Count(db[FbKey(req[p])[1]], FbKey(req[p])[2])
              = Count(db0[FbKey(req[p])[1]], FbKey(req[p])[2]) + 1

=============================================================================
